---- MODULE Spec2Model ----
(***************************************************************************)
(* A model of app.py of universal-video-downloader: the format selector    *)
(* _pick_format and the request handler download() with its bounded        *)
(* streaming relay.                                                        *)
(*                                                                         *)
(* Python values.  None is the empty sequence and a present value v is     *)
(* the one-element sequence <<v>>, so that dict.get(key) of an absent key  *)
(* and of a present key differ.  A str is a sequence of characters, each   *)
(* character a one-token string; "sup2" stands for U+00B2 SUPERSCRIPT TWO, *)
(* a character for which str.isdigit() is true and int() raises.  The      *)
(* strings the code only compares or tests for emptiness (ext, vcodec,     *)
(* acodec, a candidate's url) are plain strings.                           *)
(*                                                                         *)
(* Byte counts are scaled: the unit is chosen so that MAX_BYTES is a small *)
(* number and a stream of a few chunks can cross it; as in app.py, the     *)
(* ceiling is a whole number of chunks.                                    *)
(***************************************************************************)
EXTENDS Integers, Sequences, FiniteSets, TLC

\* ---------- Config (app.py:16-20) ----------
MAX_BYTES == 4
MAX_DURATION_SEC == 600
CHUNK == 2

\* ---------- bounds of the model ----------
\* longest candidate list handed to _pick_format in SpecPick
MaxFormats == 3
\* most chunks a response body yields
MaxChunks == 4

\* ---------- Python values ----------
None == <<>>
Some(v) == <<v>>

\* `x or 0` for an optional number
OrZero(o) == IF o = None THEN 0 ELSE o[1]

\* truth value of an optional number / optional str
TruthyNum(o) == o # None /\ o[1] # 0
TruthyStr(o) == o # None /\ o[1] # ""

\* ---------- str methods ----------
AsciiDigits == {"0", "1", "2", "3", "4", "5", "6", "7", "8", "9"}

\* characters c with c.isdigit(): the decimal digits and the digit-like
\* characters that are no decimal (superscripts and the like)
IsDigitChars == AsciiDigits \cup {"sup2"}

DigitVal(c) ==
  CASE c = "0" -> 0 [] c = "1" -> 1 [] c = "2" -> 2 [] c = "3" -> 3
    [] c = "4" -> 4 [] c = "5" -> 5 [] c = "6" -> 6 [] c = "7" -> 7
    [] c = "8" -> 8 [] c = "9" -> 9

\* str.isdigit(): non-empty and every character a digit character
isdigit(s) == Len(s) > 0 /\ \A i \in 1..Len(s) : s[i] \in IsDigitChars

\* int(s) raises ValueError on a string of digit characters that are not
\* all decimal digits
int_raises(s) == \E i \in 1..Len(s) : s[i] \notin AsciiDigits

RECURSIVE int(_)
int(s) == IF s = <<>> THEN 0
          ELSE 10 * int(SubSeq(s, 1, Len(s) - 1)) + DigitVal(s[Len(s)])

\* ---------- _pick_format (app.py:70-90) ----------
is_playable(f) == f.vcodec # Some("none") /\ f.acodec # Some("none")

playable(formats) == SelectSeq(formats, is_playable)

is_mp4(f) == f.ext = Some("mp4")

mp4s(formats) == SelectSeq(playable(formats), is_mp4)

score(f) == <<OrZero(f.height), OrZero(f.tbr)>>

\* tuple comparison a <= b
KeyLeq(a, b) == a[1] < b[1] \/ (a[1] = b[1] /\ a[2] <= b[2])

\* sorted(seq, key=score): ascending and stable
SortInsert(s, x) ==
  LET k == Cardinality({i \in 1..Len(s) : KeyLeq(score(s[i]), score(x))})
  IN  SubSeq(s, 1, k) \o <<x>> \o SubSeq(s, k + 1, Len(s))

RECURSIVE sorted(_)
sorted(s) == IF s = <<>> THEN <<>>
             ELSE SortInsert(sorted(SubSeq(s, 1, Len(s) - 1)), s[Len(s)])

\* target_h = int(pref) if pref.isdigit() else None
target_h(pref) == IF isdigit(pref) THEN Some(int(pref)) ELSE None

\* the call raises (ValueError out of int) before anything is chosen
pick_raises(pref) == isdigit(pref) /\ int_raises(pref)

\* under with a strict comparison
under_strict(srt, h) == SelectSeq(srt, LAMBDA f : OrZero(f.height) < h)

\* [f for f in srt if (f.get("height") or 0) <= h]
under(srt, h) == SelectSeq(srt, LAMBDA f : OrZero(f.height) <= h)

\* pick_from with the fallback taken from the wrong end of the list
pick_from_fallback_last(srt, th) ==
  IF TruthyNum(th)
  THEN LET u == SelectSeq(srt, LAMBDA f : OrZero(f.height) <= th[1])
       IN  IF u # <<>> THEN Some(u[Len(u)])
           ELSE IF srt # <<>> THEN Some(srt[Len(srt)]) ELSE None
  ELSE IF srt # <<>> THEN Some(srt[Len(srt)]) ELSE None

\* the branch taken on one sorted list; the mp4 branch runs on a non-empty
\* list, the other guards the empty list
pick_from(srt, th) ==
  IF TruthyNum(th)
  THEN LET u == under(srt, th[1])
       IN  IF u # <<>> THEN Some(u[Len(u)])
           ELSE IF srt # <<>> THEN Some(srt[1]) ELSE None
  ELSE IF srt # <<>> THEN Some(srt[Len(srt)]) ELSE None

_pick_format(formats, pref) ==
  IF mp4s(formats) # <<>>
  THEN pick_from(sorted(mp4s(formats)), target_h(pref))
  ELSE pick_from(sorted(playable(formats)), target_h(pref))

\* ---------- more str methods and urlparse ----------
Whitespace == {" "}

RECURSIVE lstrip(_)
lstrip(s) == IF s # <<>> /\ s[1] \in Whitespace THEN lstrip(Tail(s)) ELSE s

RECURSIVE rstrip(_)
rstrip(s) == IF s # <<>> /\ s[Len(s)] \in Whitespace
             THEN rstrip(SubSeq(s, 1, Len(s) - 1)) ELSE s

strip(s) == rstrip(lstrip(s))

LowerChar(c) ==
  CASE c = "B" -> "b" [] c = "E" -> "e" [] c = "S" -> "s" [] c = "T" -> "t"
    [] c = "H" -> "h" [] c = "P" -> "p" [] c = "M" -> "m" [] c = "O" -> "o"
    [] c = "V" -> "v" [] c = "K" -> "k" [] c = "W" -> "w" [] OTHER -> c

lower(s) == [i \in 1..Len(s) |-> LowerChar(s[i])]

Letters == {"b", "e", "s", "t", "h", "p", "f", "x", "B", "E", "S", "T", "H", "P"}

\* urlparse(url).scheme: the text before the first ":" when it starts with
\* a letter and holds only scheme characters, lower-cased; "" otherwise
urlparse_scheme(url) ==
  LET colons == {i \in 1..Len(url) : url[i] = ":"}
  IN  IF colons = {} THEN <<>>
      ELSE LET i == CHOOSE j \in colons : \A k \in colons : j <= k
               head == SubSeq(url, 1, i - 1)
           IN  IF i > 1 /\ \A k \in 1..(i - 1) : head[k] \in Letters
               THEN lower(head) ELSE <<>>

ALLOWED_SCHEMES == {<<"h", "t", "t", "p">>, <<"h", "t", "t", "p", "s">>}

\* `x or default` for an optional str held as characters
OrChars(o, default) == IF o # None /\ o[1] # <<>> THEN o[1] ELSE default

\* ---------- _safe_filename (app.py:63-68) ----------
\* the characters of [A-Za-z0-9._-] that names are built from here
NameChars ==
  { "m", "p", "4", "o", "v", "w", "e", "b", "k", "x", "i", "d",
    "M", "P", "O", "V", "K", "W", ".", "_", "-" }

\* re.sub(r"[^A-Za-z0-9._-]+", "_", name): every maximal run of other
\* characters becomes one underscore
RECURSIVE sub_runs(_, _)
sub_runs(s, inRun) ==
  IF s = <<>> THEN <<>>
  ELSE IF s[1] \in NameChars THEN <<s[1]>> \o sub_runs(Tail(s), FALSE)
  ELSE IF inRun THEN sub_runs(Tail(s), TRUE)
  ELSE <<"_">> \o sub_runs(Tail(s), TRUE)

VideoExts == { <<"m", "p", "4">>, <<"m", "o", "v">>, <<"w", "e", "b", "m">>,
               <<"m", "k", "v">> }

\* the pattern tried with re.match, which anchors it at the start of the name
has_video_ext_match(s) ==
  \E e \in VideoExts :
    /\ Len(s) = Len(e) + 1
    /\ s[1] = "."
    /\ lower(SubSeq(s, 2, Len(s))) = e

\* re.search(r"\.(mp4|mov|webm|mkv)$", name, re.I); the name holds no newline
\* after the substitution, so $ is the end of the name
has_video_ext(s) ==
  \E e \in VideoExts :
    /\ Len(s) >= Len(e) + 1
    /\ s[Len(s) - Len(e)] = "."
    /\ lower(SubSeq(s, Len(s) - Len(e) + 1, Len(s))) = e

Chars_video == <<"v", "i", "d", "e", "o">>

\* name is None or a str; the result is a str
_safe_filename(name) ==
  LET stripped == strip(OrChars(name, Chars_video))
      cleaned == sub_runs(stripped, FALSE)
  IN  IF has_video_ext(cleaned) THEN cleaned
      ELSE cleaned \o <<".", "m", "p", "4">>

\* ---------- the inputs of a request ----------
Chars_best == <<"b", "e", "s", "t">>
Chars_http_x == <<"h", "t", "t", "p", ":", "/", "/", "x">>

\* request.form.get("url")
RawUrls ==
  { None, Some(<<" ">>), Some(Chars_http_x),
    Some(<<" ", "H", "T", "T", "P", "S", ":", "/", "/", "x">>),
    Some(<<"f", "t", "p", ":", "/", "/", "x">>), Some(<<"x">>) }

\* request.form.get("quality")
RawQualities ==
  { None, Some(<<"B", "E", "S", "T", " ">>), Some(<<" ", "4", "8", "0">>),
    Some(<<"sup2">>) }

\* a format candidate as the resolver reports it
Fmt(ext, vcodec, acodec, height, tbr, filesize, filesize_approx, url) ==
  [ext |-> ext, vcodec |-> vcodec, acodec |-> acodec, height |-> height,
   tbr |-> tbr, filesize |-> filesize, filesize_approx |-> filesize_approx,
   url |-> url]

\* a playable candidate with a source url and no size estimate
AV(ext, height, tbr) ==
  Fmt(Some(ext), Some("avc1"), Some("mp4a"), height, tbr, None, None, Some("u"))

\* the resolver's result
Info(duration, formats, entries) ==
  [duration |-> duration, formats |-> formats, entries |-> entries]

\* ---------- the state of one request ----------
VARIABLES
  pc,          \* where download() stands
  url,         \* url, stripped
  quality,     \* quality, stripped and lower-cased
  cookiefile,  \* the saved cookie file: "none", "exists", "deleted"
  info,        \* the resolver's result
  chosen,      \* _pick_format's result
  getIssued,   \* requests.get on the chosen url was called
  body,        \* the chunk lengths r.iter_content yields, in order
  idx,         \* how many chunks the loop has taken from the body
  tmp,         \* the temporary media file: "none", "exists", "deleted"
  written,     \* the running total
  fileSize,    \* bytes written to the temporary file
  unlinkCalls, \* calls of os.unlink(tmp_path)
  exc,         \* the exception in flight or that ended the request
  status,      \* the HTTP status the caller receives, 0 while pending
  served,      \* send_file returned the response
  delivered,   \* the response body reached the client
  failedAt,    \* where the request failed and what exception it had caught
  names,       \* the name handed to _safe_filename and each result since
  prev,        \* the outcome of an earlier failed request, None if none kept
  reqs,        \* concurrent requests in their relay, each with its own state
  files        \* the temporary directory: the request whose file is at a path

vars == <<pc, url, quality, cookiefile, info, chosen, getIssued, body, idx,
          tmp, written, fileSize, unlinkCalls, exc, status, served, delivered,
          failedAt, names, prev, reqs, files>>

\* what no step of a single request touches
serverVars == <<prev, reqs, files>>

\* a request that has not failed
NotFailed == [at |-> "none", caught |-> "none"]

NoInfo == Info(None, <<>>, <<>>)

Init ==
  /\ pc = "start"
  /\ url = <<>>
  /\ quality = <<>>
  /\ cookiefile = "none"
  /\ info = NoInfo
  /\ chosen = None
  /\ getIssued = FALSE
  /\ body = <<>>
  /\ idx = 0
  /\ tmp = "none"
  /\ written = 0
  /\ fileSize = 0
  /\ unlinkCalls = 0
  /\ exc = "none"
  /\ status = 0
  /\ served = FALSE
  /\ delivered = FALSE
  /\ failedAt = NotFailed
  /\ names = <<>>
  /\ prev = None
  /\ reqs = <<>>
  /\ files = <<>>

\* abort(code, ...) outside any try block, or an exception no handler of
\* download() catches: the request ends with that status
Fail(code, e) ==
  /\ pc' = "done"
  /\ status' = code
  /\ exc' = e
  /\ failedAt' = [at |-> pc, caught |-> exc]

\* ---------- what the resolver and the media server may answer ----------
\* candidates with a size estimate or without a source url
F_1080 == AV("mp4", Some(1080), Some(2))
F_480_big == Fmt(Some("mp4"), Some("avc1"), Some("mp4a"), Some(480), Some(1),
                 Some(MAX_BYTES + 4), None, Some("u"))
F_480_approx_big == Fmt(Some("mp4"), Some("avc1"), Some("mp4a"), Some(480),
                        Some(1), Some(0), Some(MAX_BYTES + 1), Some("u"))
F_720_fits == Fmt(Some("webm"), Some("vp9"), Some("opus"), Some(720), Some(2),
                  Some(MAX_BYTES), Some(MAX_BYTES + 4), Some("u"))
F_720_nourl == Fmt(Some("mp4"), Some("avc1"), Some("mp4a"), Some(720), None,
                   None, None, Some(""))
F_video_only == Fmt(Some("mp4"), Some("avc1"), Some("none"), Some(720),
                    Some(2), None, None, Some("u"))

Infos ==
  { Info(Some(100), <<F_1080>>, <<>>),
    Info(Some(MAX_DURATION_SEC), <<F_720_fits>>, <<>>),
    Info(Some(MAX_DURATION_SEC + 100), <<F_1080>>, <<>>),
    Info(Some(MAX_DURATION_SEC + 100), <<F_video_only>>, <<>>),
    Info(None, <<F_480_big, F_1080>>, <<>>),
    Info(Some(0), <<F_480_approx_big>>, <<>>),
    Info(Some(100), <<F_720_nourl, F_720_fits>>, <<>>),
    Info(Some(100), <<F_video_only>>, <<>>),
    Info(None, <<>>, <<>>),
    Info(None, <<>>, <<Info(Some(MAX_DURATION_SEC + 100), <<F_1080>>, <<>>)>>),
    Info(Some(MAX_DURATION_SEC + 100), <<>>, <<Info(Some(100), <<F_1080>>, <<>>)>>) }

\* the chunk lengths a response body may yield: iter_content(chunk_size=CHUNK)
\* yields chunks of at most CHUNK bytes, empty ones included
Bodies == UNION {[1..n -> 0..CHUNK] : n \in 0..MaxChunks}

RECURSIVE SumSeq(_)
SumSeq(s) == IF s = <<>> THEN 0 ELSE s[1] + SumSeq(Tail(s))

\* ---------- download (app.py:98-186) ----------
\* app.py:100-112: read the form, validate the url, save the cookie upload
Start ==
  /\ pc = "start"
  /\ \E ru \in RawUrls, rq \in RawQualities, hasCookies \in BOOLEAN :
       /\ url' = strip(OrChars(ru, <<>>))
       /\ quality' = lower(strip(OrChars(rq, Chars_best)))
       /\ IF url' = <<>> \/ lower(urlparse_scheme(url')) \notin ALLOWED_SCHEMES
          THEN /\ Fail(400, "abort")
               /\ UNCHANGED cookiefile
          ELSE /\ cookiefile' = IF hasCookies THEN "exists" ELSE "none"
               /\ pc' = "resolve"
               /\ UNCHANGED <<status, exc, failedAt>>
  /\ UNCHANGED <<info, chosen, getIssued, body, idx, tmp, written, fileSize,
                 unlinkCalls, served, delivered>>
  /\ UNCHANGED <<names, serverVars>>

\* os.unlink(cookiefile) under `if cookiefile:`
unlink_cookie(c) == IF c = "exists" THEN "deleted" ELSE c

\* app.py:123-131: ydl.extract_info returns, raises DownloadError, or raises
\* something else, which no handler catches
Resolve ==
  /\ pc = "resolve"
  /\ \/ \E i \in Infos :
          /\ info' = i
          /\ cookiefile' = unlink_cookie(cookiefile)
          /\ pc' = "playlist"
          /\ UNCHANGED <<status, exc, failedAt>>
     \/ /\ cookiefile' = unlink_cookie(cookiefile)
        /\ Fail(400, "abort")
        /\ UNCHANGED info
     \/ /\ Fail(500, "Exception")
        /\ UNCHANGED <<info, cookiefile>>
  /\ UNCHANGED <<url, quality, chosen, getIssued, body, idx, tmp, written,
                 fileSize, unlinkCalls, served, delivered>>
  /\ UNCHANGED <<names, serverVars>>

\* app.py:134-135: a playlist is replaced by its first entry
Playlist ==
  /\ pc = "playlist"
  /\ info' = IF info.entries # <<>> THEN info.entries[1] ELSE info
  /\ pc' = "duration"
  /\ UNCHANGED <<url, quality, cookiefile, chosen, getIssued, body, idx, tmp,
                 written, fileSize, unlinkCalls, exc, status, served,
                 delivered>>
  /\ UNCHANGED <<failedAt, names, serverVars>>

\* the limit taken for minutes
too_long_minutes(i) == OrZero(i.duration) > MAX_DURATION_SEC * 60

\* duration = info.get("duration") or 0; duration and duration > MAX_DURATION_SEC
too_long(i) == OrZero(i.duration) # 0 /\ OrZero(i.duration) > MAX_DURATION_SEC

\* app.py:138-140
CheckDuration ==
  /\ pc = "duration"
  /\ IF too_long(info)
     THEN Fail(413, "abort")
     ELSE /\ pc' = "pick"
          /\ UNCHANGED <<status, exc, failedAt>>
  /\ UNCHANGED <<url, quality, cookiefile, info, chosen, getIssued, body, idx,
                 tmp, written, fileSize, unlinkCalls, served, delivered>>
  /\ UNCHANGED <<names, serverVars>>

\* not chosen or not chosen.get("url")
unusable(c) == c = None \/ ~TruthyStr(c[1].url)

\* app.py:143-145: int() may raise out of _pick_format, which nothing catches
PickFormat ==
  /\ pc = "pick"
  /\ IF pick_raises(quality)
     THEN /\ Fail(500, "ValueError")
          /\ UNCHANGED chosen
     ELSE /\ chosen' = _pick_format(info.formats, quality)
          /\ IF unusable(chosen')
             THEN Fail(415, "abort")
             ELSE /\ pc' = "size"
                  /\ UNCHANGED <<status, exc, failedAt>>
  /\ UNCHANGED <<url, quality, cookiefile, info, getIssued, body, idx, tmp,
                 written, fileSize, unlinkCalls, served, delivered>>
  /\ UNCHANGED <<names, serverVars>>

\* est_size = chosen.get("filesize") or chosen.get("filesize_approx")
est_size(f) == IF TruthyNum(f.filesize) THEN f.filesize ELSE f.filesize_approx

\* the limit tested on filesize alone
too_large_exact_only(f) == TruthyNum(f.filesize) /\ f.filesize[1] > MAX_BYTES

\* est_size and est_size > MAX_BYTES
too_large(f) == TruthyNum(est_size(f)) /\ est_size(f)[1] > MAX_BYTES

\* app.py:148-150
CheckSize ==
  /\ pc = "size"
  /\ IF too_large(chosen[1])
     THEN Fail(413, "abort")
     ELSE /\ pc' = "fetch"
          /\ UNCHANGED <<status, exc, failedAt>>
  /\ UNCHANGED <<url, quality, cookiefile, info, chosen, getIssued, body, idx,
                 tmp, written, fileSize, unlinkCalls, served, delivered>>
  /\ UNCHANGED <<names, serverVars>>

\* how requests.get / raise_for_status may fail, each a RequestException
FetchFailures == {"ConnectionError", "ConnectTimeout", "HTTPError"}

\* the temporary file allocated before the GET
Fetch_alloc_first ==
  /\ pc = "fetch"
  /\ getIssued' = TRUE
  /\ tmp' = "exists"
  /\ \/ \E b \in Bodies :
          /\ body' = b
          /\ pc' = "alloc"
          /\ UNCHANGED <<status, exc, failedAt>>
     \/ \E e \in {"ConnectionError", "ConnectTimeout", "HTTPError"} :
          /\ Fail(504, e)
          /\ UNCHANGED body
  /\ UNCHANGED <<url, quality, cookiefile, info, chosen, idx, written,
                 fileSize, unlinkCalls, served, delivered>>
  /\ UNCHANGED <<names, serverVars>>

\* app.py:153-157: the GET answers 2xx with some body, or fails
Fetch ==
  /\ pc = "fetch"
  /\ getIssued' = TRUE
  /\ \/ \E b \in Bodies :
          /\ body' = b
          /\ pc' = "alloc"
          /\ UNCHANGED <<status, exc, failedAt>>
     \/ \E e \in FetchFailures :
          /\ Fail(504, e)
          /\ UNCHANGED body
  /\ UNCHANGED <<url, quality, cookiefile, info, chosen, idx, tmp, written,
                 fileSize, unlinkCalls, served, delivered>>
  /\ UNCHANGED <<names, serverVars>>

\* app.py:159-161
AllocTmp ==
  /\ pc = "alloc"
  /\ tmp' = "exists"
  /\ written' = 0
  /\ pc' = "loop"
  /\ UNCHANGED <<url, quality, cookiefile, info, chosen, getIssued, body, idx,
                 fileSize, unlinkCalls, exc, status, served, delivered>>
  /\ UNCHANGED <<failedAt, names, serverVars>>

\* the limit tested one chunk late
over_limit_late(w) == w > MAX_BYTES + CHUNK

\* the limit tested with >=
over_limit_geq(w) == w >= MAX_BYTES

\* written > MAX_BYTES
over_limit(w) == w > MAX_BYTES

\* app.py:163-171: one turn of the loop on the next chunk.  An empty chunk is
\* skipped; a chunk that takes the total over the limit closes and unlinks
\* the file and calls abort(413), whose HTTPException is raised inside the
\* try block; otherwise the chunk is written, which may raise OSError.
ReadChunk ==
  /\ pc = "loop"
  /\ idx < Len(body)
  /\ idx' = idx + 1
  /\ LET chunk == body[idx + 1]
     IN  IF chunk = 0
         THEN UNCHANGED <<pc, written, tmp, unlinkCalls, exc, fileSize>>
         ELSE /\ written' = written + chunk
              /\ IF over_limit(written')
                 THEN /\ tmp' = "deleted"
                      /\ unlinkCalls' = unlinkCalls + 1
                      /\ exc' = "HTTPException413"
                      /\ pc' = "except"
                      /\ UNCHANGED fileSize
                 ELSE \/ /\ fileSize' = fileSize + chunk
                         /\ UNCHANGED <<pc, tmp, unlinkCalls, exc>>
                      \/ /\ exc' = "OSError"
                         /\ pc' = "except"
                         /\ UNCHANGED <<fileSize, tmp, unlinkCalls>>
  /\ UNCHANGED <<url, quality, cookiefile, info, chosen, getIssued, body,
                 status, served, delivered>>
  /\ UNCHANGED <<failedAt, names, serverVars>>

\* how iterating r.iter_content may fail
ReadFailures == {"ReadTimeout", "ChunkedEncodingError"}

\* app.py:163: the iterator raises instead of yielding
ReadError ==
  /\ pc = "loop"
  /\ \E e \in ReadFailures : exc' = e
  /\ pc' = "except"
  /\ UNCHANGED <<url, quality, cookiefile, info, chosen, getIssued, body, idx,
                 tmp, written, fileSize, unlinkCalls, status, served,
                 delivered>>
  /\ UNCHANGED <<failedAt, names, serverVars>>

\* app.py:172-173: the body is exhausted; flush may raise OSError
Finish ==
  /\ pc = "loop"
  /\ idx = Len(body)
  /\ \/ /\ pc' = "send"
        /\ UNCHANGED exc
     \/ /\ exc' = "OSError"
        /\ pc' = "except"
  /\ UNCHANGED <<url, quality, cookiefile, info, chosen, getIssued, body, idx,
                 tmp, written, fileSize, unlinkCalls, status, served,
                 delivered>>
  /\ UNCHANGED <<failedAt, names, serverVars>>

\* the handler without its os.unlink
Except_no_unlink ==
  /\ pc = "except"
  /\ Fail(500, "abort")
  /\ UNCHANGED <<url, quality, cookiefile, info, chosen, getIssued, body, idx,
                 tmp, written, fileSize, unlinkCalls, served, delivered>>
  /\ UNCHANGED <<names, serverVars>>

\* app.py:174-177: `except Exception` catches whatever the try block raised,
\* abort's HTTPException included.  os.unlink of a path that is gone raises
\* FileNotFoundError out of the handler, which ends the request as an
\* unhandled exception (500); otherwise abort(500).
Except ==
  /\ pc = "except"
  /\ unlinkCalls' = unlinkCalls + 1
  /\ IF tmp = "exists"
     THEN /\ tmp' = "deleted"
          /\ Fail(500, "abort")
     ELSE /\ Fail(500, "FileNotFoundError")
          /\ UNCHANGED tmp
  /\ UNCHANGED <<url, quality, cookiefile, info, chosen, getIssued, body, idx,
                 written, fileSize, served, delivered>>
  /\ UNCHANGED <<names, serverVars>>

\* info.get("title"), which only app.py:185 reads
Titles == { None, Some(<<"M", ".", "M", "P", "4">>), Some(<<" ", "/", "x">>) }

\* app.py:179-186: _cleanup is registered, the download name is made from
\* the title and send_file builds the response
SendFile ==
  /\ pc = "send"
  /\ \E title \in Titles : names' = <<title, Some(_safe_filename(title))>>
  /\ served' = TRUE
  /\ status' = 200
  /\ pc' = "after_request"
  /\ UNCHANGED <<url, quality, cookiefile, info, chosen, getIssued, body, idx,
                 tmp, written, fileSize, unlinkCalls, exc, delivered>>
  /\ UNCHANGED <<failedAt, serverVars>>

\* app.py:180-183: _cleanup runs once the view has returned the response
\* object, before the server sends the body
Cleanup ==
  /\ pc = "after_request"
  /\ unlinkCalls' = unlinkCalls + 1
  /\ tmp' = IF tmp = "exists" THEN "deleted" ELSE tmp
  /\ pc' = "respond"
  /\ UNCHANGED <<url, quality, cookiefile, info, chosen, getIssued, body, idx,
                 written, fileSize, exc, status, served, delivered>>
  /\ UNCHANGED <<failedAt, names, serverVars>>

\* the server streams the response body to the client
Deliver ==
  /\ pc = "respond"
  /\ delivered' = TRUE
  /\ pc' = "done"
  /\ UNCHANGED <<url, quality, cookiefile, info, chosen, getIssued, body, idx,
                 tmp, written, fileSize, unlinkCalls, exc, status, served>>
  /\ UNCHANGED <<failedAt, names, serverVars>>

Next ==
  \/ Start \/ Resolve \/ Playlist \/ CheckDuration \/ PickFormat \/ CheckSize
  \/ Fetch \/ AllocTmp \/ ReadChunk \/ ReadError \/ Finish \/ Except
  \/ SendFile \/ Cleanup \/ Deliver

Spec == Init /\ [][Next]_vars

\* ---------- _pick_format on its own ----------
\* a candidate that reports only its container and height
Bare(ext, height) == Fmt(Some(ext), None, None, Some(height), None, None, None, Some("u"))

P_mp4_1080 == Bare("mp4", 1080)
P_mp4_480 == Bare("mp4", 480)
P_mp4_240 == Bare("mp4", 240)
P_webm_720 == Bare("webm", 720)

Pool ==
  { P_mp4_1080, P_mp4_480, P_mp4_240, P_webm_720,
    AV("mp4", Some(480), Some(2)),
    AV("webm", Some(240), Some(1)),
    AV("mp4", None, None),
    AV("webm", Some(0), Some(3)),
    Fmt(Some("mp4"), Some("avc1"), Some("none"), Some(720), Some(2), None, None, Some("u")),
    Fmt(Some("webm"), Some("none"), Some("opus"), None, Some(1), None, None, Some("u")) }

FormatLists == UNION {[1..n -> Pool] : n \in 0..MaxFormats}

\* quality as download() hands it over: stripped and lower-cased
Prefs ==
  { Chars_best, <<"4", "8", "0">>, <<"7", "2", "0">>, <<"1", "0", "0">>,
    <<"0">>, <<"x">>, <<"sup2">> }

\* a request that has come to app.py:143 with any candidate list and preference
PickInit ==
  /\ pc = "pick"
  /\ url = Chars_http_x
  /\ quality \in Prefs
  /\ cookiefile = "none"
  /\ info \in {Info(None, fs, <<>>) : fs \in FormatLists}
  /\ chosen = None
  /\ getIssued = FALSE
  /\ body = <<>>
  /\ idx = 0
  /\ tmp = "none"
  /\ written = 0
  /\ fileSize = 0
  /\ unlinkCalls = 0
  /\ exc = "none"
  /\ status = 0
  /\ served = FALSE
  /\ delivered = FALSE
  /\ failedAt = NotFailed
  /\ names = <<>>
  /\ prev = None
  /\ reqs = <<>>
  /\ files = <<>>

PickNext == PickFormat

SpecPick == PickInit /\ [][PickNext]_vars

\* ---------- what the claims speak of ----------
Range(s) == {s[i] : i \in 1..Len(s)}

\* _pick_format has been called / has returned
PickCalled ==
  /\ pc \notin {"start", "resolve", "playlist", "duration", "pick"}
  /\ failedAt.at \notin {"start", "resolve", "duration"}
PickReturned == PickCalled /\ exc # "ValueError"

\* the candidates with both video and audio, the mp4 ones, and the subset
\* the selection prefers
PlayableSet == {f \in Range(info.formats) : f.vcodec # Some("none") /\ f.acodec # Some("none")}
Mp4Set == {f \in PlayableSet : f.ext = Some("mp4")}
PreferredSet == IF Mp4Set # {} THEN Mp4Set ELSE PlayableSet

Ht(f) == IF f.height = None THEN 0 ELSE f.height[1]
Key(f) == <<Ht(f), IF f.tbr = None THEN 0 ELSE f.tbr[1]>>

\* the preference is a positive integer written in decimal digits
IsPosInt(q) == q # <<>> /\ (\A i \in 1..Len(q) : q[i] \in AsciiDigits) /\ int(q) > 0
PrefH == int(quality)

MinHt(S) == CHOOSE h \in {Ht(f) : f \in S} : \A g \in S : h <= Ht(g)

\* ---------- claims about _pick_format (checked under SpecPick) ----------

\* C5, as stated: with a numeric preference H > 0 and some playable
\* candidate, the selected candidate's height is <= H whenever any playable
\* candidate of any container has height <= H, and otherwise it is the
\* minimum height among all playable candidates.
C5_AnyContainer ==
  (PickReturned /\ IsPosInt(quality) /\ PlayableSet # {}) =>
    /\ chosen # None
    /\ IF \E f \in PlayableSet : Ht(f) <= PrefH
       THEN Ht(chosen[1]) <= PrefH
       ELSE Ht(chosen[1]) = MinHt(PlayableSet)

\* C5, amended: the same with the preferred subset (the playable mp4
\* candidates if there is any, else all playable candidates) in place of all
\* playable candidates, an unknown height counting as 0.
C5_WithinPreferred ==
  (PickReturned /\ IsPosInt(quality) /\ PlayableSet # {}) =>
    /\ chosen # None
    /\ IF \E f \in PreferredSet : Ht(f) <= PrefH
       THEN Ht(chosen[1]) <= PrefH
       ELSE Ht(chosen[1]) = MinHt(PreferredSet)

\* C5's case: every preferred candidate is above H, one of another container
\* is not, and there are several heights to fall back to
C5_Witness ==
  /\ PickReturned /\ IsPosInt(quality)
  /\ \A f \in PreferredSet : Ht(f) > PrefH
  /\ \E f \in PlayableSet : Ht(f) <= PrefH
  /\ \E f \in PreferredSet : Ht(f) > MinHt(PreferredSet)
  /\ chosen # None /\ Ht(chosen[1]) = MinHt(PreferredSet)

\* C6: with a numeric preference H > 0, the result is the entry of the
\* preferred subset S with the largest key among those of height <= H, or,
\* when S has none of height <= H, the entry with the smallest key; the two
\* scenarios of the specification select the 480p mp4 and the 240p mp4.
C6_ClosestWithoutExceeding ==
  (PickReturned /\ IsPosInt(quality) /\ PlayableSet # {}) =>
    /\ chosen # None
    /\ chosen[1] \in PreferredSet
    /\ LET Under == {f \in PreferredSet : Ht(f) <= PrefH}
       IN  IF Under # {}
           THEN /\ chosen[1] \in Under
                /\ \A f \in Under : KeyLeq(Key(f), Key(chosen[1]))
           ELSE \A f \in PreferredSet : KeyLeq(Key(chosen[1]), Key(f))
    /\ (info.formats = <<P_mp4_1080, P_mp4_480, P_webm_720>>
          /\ quality = <<"4", "8", "0">>) => chosen = Some(P_mp4_480)
    /\ (info.formats = <<P_mp4_240>> /\ quality = <<"7", "2", "0">>)
          => chosen = Some(P_mp4_240)

\* C6's case: the first scenario has been selected from
C6_Witness ==
  /\ PickReturned
  /\ info.formats = <<P_mp4_1080, P_mp4_480, P_webm_720>>
  /\ quality = <<"4", "8", "0">>
  /\ chosen = Some(P_mp4_480)

\* C7: for "best" and for every preference that is not a positive integer,
\* the call returns a candidate with the maximum key among the preferred
\* subset.
C7_BestIsMaxKey ==
  (PickCalled /\ ~IsPosInt(quality) /\ PlayableSet # {}) =>
    /\ PickReturned
    /\ chosen # None
    /\ chosen[1] \in PreferredSet
    /\ \A f \in PreferredSet : KeyLeq(Key(f), Key(chosen[1]))

\* C8: the call returns none when the list is empty or holds no candidate
\* with both video and audio, and whatever it returns is a playable member
\* of the list.
C8_NoneOrPlayable ==
  PickCalled =>
    /\ PlayableSet = {} => (PickReturned /\ chosen = None)
    /\ chosen # None => chosen[1] \in PlayableSet

\* ---------- claims about download (checked under Spec) ----------

\* C1: once the running total has exceeded MAX_BYTES, the request ends with
\* 413, the temporary file deleted and nothing served.
C1_CeilingGives413 ==
  (pc = "done" /\ written > MAX_BYTES) =>
    (status = 413 /\ tmp = "deleted" /\ ~served)

\* C2: the temporary file never holds more than MAX_BYTES, and a body whose
\* chunks add up to more than MAX_BYTES is never served and leaves no
\* temporary file behind.
C2_NeverOverCeiling ==
  /\ fileSize <= MAX_BYTES
  /\ SumSeq(body) > MAX_BYTES =>
       /\ ~served /\ status # 200
       /\ pc \notin {"send", "after_request", "respond"}
       /\ pc = "done" => tmp = "deleted"

\* C2's case: a body over the ceiling was read up to the breach, part of it
\* written
C2_Witness ==
  /\ pc = "done"
  /\ SumSeq(body) > MAX_BYTES /\ written > MAX_BYTES
  /\ fileSize > 0 /\ tmp = "deleted"

\* C3: a request that allocated the temporary file has called
\* os.unlink(tmp_path) exactly once when it ends, whatever the outcome.
C3_ExactlyOneUnlink ==
  (pc = "done" /\ tmp # "none") => unlinkCalls = 1

\* C4: when a request that issued the media GET ends in failure, no
\* temporary file it created (the media file, the cookie file) still exists.
C4_NoOrphanOnFailure ==
  (pc = "done" /\ getIssued /\ status # 200) =>
    (tmp # "exists" /\ cookiefile # "exists")

\* C4's case: a write failed after part of the body had been written
C4_Witness ==
  /\ pc = "done" /\ status = 500
  /\ fileSize > 0 /\ written > fileSize /\ written <= MAX_BYTES
  /\ tmp = "deleted"

\* the video's duration is known and over the limit; the chosen candidate's
\* size estimate (filesize, else filesize_approx) is over the limit
DurationTooLong ==
  /\ pc \notin {"start", "resolve", "playlist"}
  /\ info.duration # None /\ info.duration[1] > MAX_DURATION_SEC
EstSize(f) ==
  IF f.filesize # None /\ f.filesize[1] # 0 THEN f.filesize[1]
  ELSE IF f.filesize_approx # None THEN f.filesize_approx[1] ELSE 0
SizeTooLarge == chosen # None /\ EstSize(chosen[1]) > MAX_BYTES

\* C9: a request whose duration is known to exceed MAX_DURATION_SEC, or whose
\* chosen candidate's estimated size exceeds MAX_BYTES, is rejected without
\* the media GET being issued or a temporary media file being created.
C9_RejectedBeforeFetch ==
  /\ DurationTooLong =>
       (pc \in {"duration", "done"} /\ (pc = "done" => status = 413))
  /\ SizeTooLarge =>
       (pc \in {"size", "done"} /\ (pc = "done" => status \in {413, 415}))
  /\ (DurationTooLong \/ SizeTooLarge) => (~getIssued /\ tmp = "none")

\* C9's case: a candidate whose only size estimate is filesize_approx was
\* chosen and the request rejected for it
C9_Witness ==
  /\ pc = "done" /\ status = 413
  /\ SizeTooLarge /\ ~DurationTooLong
  /\ chosen[1].filesize_approx # None

\* C10: a failed media GET ends the request at once with 504 and without a
\* temporary file; the temporary file is allocated only after a successful
\* response and before any chunk of the body is taken.
C10_GatewayBeforeAlloc ==
  /\ exc \in FetchFailures => (pc = "done" /\ status = 504 /\ tmp = "none")
  /\ tmp # "none" => (getIssued /\ exc \notin FetchFailures)
  /\ pc \in {"start", "resolve", "playlist", "duration", "pick", "size",
             "fetch", "alloc"} => tmp = "none"
  /\ idx > 0 => tmp # "none"

\* C10's case: the GET failed
C10_Witness == pc = "done" /\ getIssued /\ exc = "HTTPError" /\ status = 504

\* ---------- _safe_filename on its own ----------
\* most characters of a name handed to _safe_filename
MaxName == 4

NameAlphabet == {".", "m", "p", "4", "M", "P", " ", "/"}

\* every short name over the alphabet, names with each recognised extension,
\* the empty name and the absent one
NameInputs ==
  {Some(n) : n \in UNION {[1..k -> NameAlphabet] : k \in 0..MaxName}}
    \cup { None,
           Some(<<"x", ".", "m", "o", "v">>), Some(<<"x", ".", "M", "O", "V">>),
           Some(<<" ", "/", ".", "w", "e", "b", "m", " ">>),
           Some(<<"m", "k", "v">>), Some(<<"x", "/", "/", ".", "M", "k", "V">>),
           Some(<<"x", ".", "m", "p", "4", "/">>) }

NameInit ==
  /\ pc = "name"
  /\ names \in {<<n>> : n \in NameInputs}
  /\ url = <<>>
  /\ quality = <<>>
  /\ cookiefile = "none"
  /\ info = NoInfo
  /\ chosen = None
  /\ getIssued = FALSE
  /\ body = <<>>
  /\ idx = 0
  /\ tmp = "none"
  /\ written = 0
  /\ fileSize = 0
  /\ unlinkCalls = 0
  /\ exc = "none"
  /\ status = 0
  /\ served = FALSE
  /\ delivered = FALSE
  /\ failedAt = NotFailed
  /\ prev = None
  /\ reqs = <<>>
  /\ files = <<>>

\* _safe_filename applied to the name, then to its own result
SafeFilename ==
  /\ pc = "name"
  /\ Len(names) < 3
  /\ names' = Append(names, Some(_safe_filename(names[Len(names)])))
  /\ UNCHANGED <<pc, url, quality, cookiefile, info, chosen, getIssued, body,
                 idx, tmp, written, fileSize, unlinkCalls, exc, status,
                 served, delivered, failedAt, serverVars>>

NameNext == SafeFilename

SpecName == NameInit /\ [][NameNext]_vars

\* C17: sanitising a sanitised name changes nothing, and a sanitised name
\* holds only characters of [A-Za-z0-9._-] and ends with .mp4, .mov, .webm
\* or .mkv, the extension read in either case as the code recognises it.
C17_Idempotent ==
  /\ Len(names) >= 2 =>
       LET r == names[2][1]
       IN  /\ \A i \in 1..Len(r) : r[i] \in NameChars
           /\ \E e \in VideoExts :
                /\ Len(r) > Len(e)
                /\ [i \in 1..(Len(e) + 1) |->
                      LowerChar(r[Len(r) - Len(e) - 1 + i])] = <<".">> \o e
  /\ Len(names) >= 3 => names[3] = names[2]

\* C17's case: a name with a run of other characters and an upper-case
\* extension has been sanitised twice
C17_Witness ==
  /\ pc = "name" /\ Len(names) = 3
  /\ names[1] = Some(<<"x", "/", "/", ".", "M", "k", "V">>)
  /\ names[3] = Some(<<"x", "_", ".", "M", "k", "V">>)

\* ---------- more claims about download (checked under Spec) ----------

\* C13: on the success path the temporary file is not deleted before the
\* response body has been sent to the client.  (That the deletion comes at
\* all once the response is done is the part of the claim the code keeps.)
C13_DeletedAfterDelivery == (served /\ tmp = "deleted") => delivered

\* C14: a request that saved a cookie file and ends in failure has deleted
\* it, however the resolver call failed.
C14_CookieReleased ==
  (pc = "done" /\ status # 200) => cookiefile # "exists"

\* C16: a request that comes to format selection with no playable candidate,
\* or whose selected candidate has no non-empty url, ends with 415 without
\* the media GET being issued, whatever other candidates there are.
C16_Unsupported415 ==
  (PickCalled /\ (PlayableSet = {} \/ (chosen # None /\ chosen[1].url \in {None, Some("")})))
    => (pc = "done" /\ status = 415 /\ ~getIssued /\ tmp = "none")

\* ---------- more claims about _pick_format (checked under SpecPick) ----------

\* C19: with a numeric preference H, no candidate counts as within H on the
\* strength of a height that was absent and defaulted to 0.
C19_NoDefaultInLimit ==
  (PickReturned /\ IsPosInt(quality)) =>
    LET src == IF mp4s(info.formats) # <<>> THEN mp4s(info.formats)
               ELSE playable(info.formats)
    IN  \A f \in Range(under(sorted(src), PrefH)) : f.height # None

\* ---------- claims about the relay loop (checked under Spec) ----------
\* the bytes of the first k chunks of a body
PrefixSum(b, k) == SumSeq(SubSeq(b, 1, k))

\* the chunks at which the cumulative total is over the ceiling
OverAt(b) == {k \in 1..Len(b) : PrefixSum(b, k) > MAX_BYTES}

\* a ceiling's worth of full chunks and one more
OneChunkOver == [i \in 1..((MAX_BYTES \div CHUNK) + 1) |-> CHUNK]

\* C15: the loop stops at the first chunk k that takes the total over the
\* ceiling: the chunks before k are in the file, chunk k is not, no later
\* chunk is taken and the file is removed; a body of exactly MAX_BYTES is
\* not aborted; a ceiling's worth of full chunks plus one aborts at the last.
C15_AbortAtFirstBreach ==
  /\ \A k \in OverAt(body) : idx <= k
  /\ written > MAX_BYTES <=> idx \in OverAt(body)
  /\ written > MAX_BYTES =>
       /\ fileSize = PrefixSum(body, idx - 1)
       /\ fileSize <= MAX_BYTES
       /\ tmp = "deleted"
       /\ pc \in {"except", "done"}
       /\ ~served
  /\ SumSeq(body) <= MAX_BYTES =>
       /\ written <= MAX_BYTES
       /\ exc # "HTTPException413"
       /\ failedAt.caught # "HTTPException413"
  /\ (body = OneChunkOver /\ written > MAX_BYTES) =>
       (idx = Len(body) /\ fileSize = MAX_BYTES)

\* C15's case: a ceiling's worth of full chunks and one more, aborted
C15_Witness ==
  /\ body = OneChunkOver
  /\ pc = "done" /\ written > MAX_BYTES
  /\ idx = Len(body) /\ fileSize = MAX_BYTES /\ tmp = "deleted"

\* ---------- the order of the checks (checked under Spec) ----------
\* the step a request stands at, or the step at which it failed
StandsAt == IF pc = "done" /\ failedAt.at # "none" THEN failedAt.at ELSE pc

Rank(step) ==
  CASE step = "start" -> 1 [] step = "resolve" -> 2 [] step = "playlist" -> 3
    [] step = "duration" -> 4 [] step = "pick" -> 5 [] step = "size" -> 6
    [] step = "fetch" -> 7 [] step = "alloc" -> 8 [] step = "loop" -> 9
    [] step = "except" -> 9 [] OTHER -> 10

Failed == pc = "done" /\ failedAt.at # "none"
FailedAt(step) == Failed /\ failedAt.at = step
Passed(step) == Rank(StandsAt) > Rank(step)

\* what each check looks at
UrlOk ==
  \E sch \in ALLOWED_SCHEMES :
    /\ Len(url) > Len(sch)
    /\ [i \in 1..Len(sch) |-> LowerChar(url[i])] = sch
    /\ url[Len(sch) + 1] = ":"
DurationOver == info.duration # None /\ info.duration[1] > MAX_DURATION_SEC
ChosenUsable ==
  /\ PlayableSet # {}
  /\ chosen # None
  /\ chosen[1].url \notin {None, Some("")}

\* C20: the checks run in the order url, resolution, duration, format,
\* estimated size, fetch, streaming; a request has passed every check before
\* the step it stands at, it fails at a step only on that step's own check
\* and with that step's status, nothing of a later step has happened once it
\* has failed, and an over-long video without a playable format is rejected
\* for its duration.
C20_FirstFailingCheck ==
  /\ Passed("start") => UrlOk
  /\ Passed("duration") => ~DurationOver
  /\ Passed("pick") => ChosenUsable
  /\ Passed("size") => EstSize(chosen[1]) <= MAX_BYTES
  /\ Passed("fetch") => (getIssued /\ exc \notin FetchFailures)
  /\ FailedAt("start") => (~UrlOk /\ status = 400)
  /\ FailedAt("resolve") => status \in {400, 500}
  /\ FailedAt("duration") => (DurationOver /\ status = 413)
  /\ FailedAt("pick") =>
       \/ ~ChosenUsable /\ status = 415
       \/ exc = "ValueError" /\ status = 500
  /\ FailedAt("size") => (EstSize(chosen[1]) > MAX_BYTES /\ status = 413)
  /\ FailedAt("fetch") => status = 504
  /\ FailedAt("except") => status = 500
  /\ Failed =>
       /\ ~served /\ ~delivered /\ names = <<>>
       /\ Rank(failedAt.at) < Rank("pick") => chosen = None
       /\ Rank(failedAt.at) < Rank("fetch") => ~getIssued
       /\ Rank(failedAt.at) < Rank("alloc") => (tmp = "none" /\ idx = 0)
  /\ (Passed("playlist") /\ DurationOver /\ PlayableSet = {}) =>
       (pc = "done" => (FailedAt("duration") /\ status = 413))

\* C20's case: an over-long video without a playable format was rejected
C20_Witness ==
  /\ FailedAt("duration") /\ status = 413
  /\ DurationOver /\ PlayableSet = {} /\ info.formats # <<>>

\* ---------- one failed request after another ----------
\* how the request in hand has ended
Outcome ==
  [at |-> failedAt.at, caught |-> failedAt.caught, exc |-> exc,
   status |-> status]

\* app.py:98: the route takes the next request; the outcome of the failed
\* one is kept beside it
NextRequest ==
  /\ pc = "done"
  /\ failedAt.at # "none"
  /\ prev = None
  /\ prev' = Some(Outcome)
  /\ pc' = "start"
  /\ url' = <<>>
  /\ quality' = <<>>
  /\ cookiefile' = "none"
  /\ info' = NoInfo
  /\ chosen' = None
  /\ getIssued' = FALSE
  /\ body' = <<>>
  /\ idx' = 0
  /\ tmp' = "none"
  /\ written' = 0
  /\ fileSize' = 0
  /\ unlinkCalls' = 0
  /\ exc' = "none"
  /\ status' = 0
  /\ served' = FALSE
  /\ delivered' = FALSE
  /\ failedAt' = NotFailed
  /\ names' = <<>>
  /\ UNCHANGED <<reqs, files>>

LogNext ==
  \/ Start \/ Resolve \/ Playlist \/ CheckDuration \/ PickFormat \/ CheckSize
  \/ Fetch \/ AllocTmp \/ ReadChunk \/ ReadError \/ Finish \/ Except
  \/ SendFile \/ Cleanup \/ Deliver \/ NextRequest

SpecLog == Init /\ [][LogNext]_vars

\* the error kind of an outcome that one of download()'s abort calls made,
\* "none" for an outcome of another sort
ErrorKind(o) ==
  CASE o.at = "start" -> "InvalidInput"
    [] o.at = "resolve" /\ o.exc = "abort" -> "ResolutionFailed"
    [] o.at = "duration" -> "DurationExceeded"
    [] o.at = "pick" /\ o.exc = "abort" -> "NoPlayableFormat"
    [] o.at = "size" -> "EstimatedSizeExceeded"
    [] o.at = "fetch" -> "FetchFailed"
    [] o.at = "except" /\ o.exc = "abort" -> "TransferAborted"
    [] OTHER -> "none"

\* C11: two requests that fail with different error kinds get different
\* statuses.
C11_DistinctStatusPerKind ==
  (prev # None /\ Failed) =>
    ((ErrorKind(prev[1]) # "none" /\ ErrorKind(Outcome) # "none"
        /\ ErrorKind(prev[1]) # ErrorKind(Outcome))
      => prev[1].status # status)

\* a timeout of the media fetch, at the GET or while reading the body; a
\* mid-stream abort for the ceiling
IsTimeout(o) == o.exc = "ConnectTimeout" \/ o.caught = "ReadTimeout"
IsCeilingAbort(o) == o.caught = "HTTPException413"

\* C12: a request that fails by a timeout of the media fetch and one that
\* is aborted for the ceiling get different statuses.
C12_TimeoutNotCeiling ==
  (prev # None /\ Failed) =>
    /\ (IsTimeout(prev[1]) /\ IsCeilingAbort(Outcome)) => prev[1].status # status
    /\ (IsCeilingAbort(prev[1]) /\ IsTimeout(Outcome)) => prev[1].status # status

\* ---------- several requests in their relay at once ----------
\* how many requests run together
NumReqs == 2

Reqs == 1..NumReqs

\* the names tempfile may hand out: any name no file has at that moment
Paths == {"tmp_a", "tmp_b"}

\* what the single request's steps work on
requestVars ==
  <<pc, url, quality, cookiefile, info, chosen, getIssued, body, idx, tmp,
    written, fileSize, unlinkCalls, exc, status, served, delivered, failedAt,
    names, prev>>

\* a request whose media GET has answered (app.py:159)
AtAlloc ==
  [pc |-> "alloc", path |-> "", idx |-> 0, written |-> 0, fileSize |-> 0,
   caught |-> "none", status |-> 0, served |-> FALSE, servedOf |-> 0,
   delivered |-> FALSE, lost |-> FALSE]

TwoInit ==
  /\ pc = "start"
  /\ url = <<>>
  /\ quality = <<>>
  /\ cookiefile = "none"
  /\ info = NoInfo
  /\ chosen = None
  /\ getIssued = FALSE
  /\ body = <<>>
  /\ idx = 0
  /\ tmp = "none"
  /\ written = 0
  /\ fileSize = 0
  /\ unlinkCalls = 0
  /\ exc = "none"
  /\ status = 0
  /\ served = FALSE
  /\ delivered = FALSE
  /\ failedAt = NotFailed
  /\ names = <<>>
  /\ prev = None
  /\ reqs = [r \in Reqs |-> AtAlloc]
  /\ files = [p \in Paths |-> 0]

\* request r goes on as `next`; its os.unlink(tmp_path) removes whatever
\* file is at the path, another request's included
StepUnlinking(r, next) ==
  LET o == files[reqs[r].path]
  IN  /\ files' = [files EXCEPT ![reqs[r].path] = 0]
      /\ reqs' = [q \in Reqs |->
                    IF q = r THEN next
                    ELSE IF q = o THEN [reqs[q] EXCEPT !.lost = TRUE]
                    ELSE reqs[q]]

\* request r goes on as `next` and the directory stays as it is
StepAlone(r, next) ==
  /\ reqs' = [reqs EXCEPT ![r] = next]
  /\ UNCHANGED files

\* app.py:159-161
AllocTmpR(r) ==
  /\ reqs[r].pc = "alloc"
  /\ \E p \in Paths :
       /\ files[p] = 0
       /\ files' = [files EXCEPT ![p] = r]
       /\ reqs' = [reqs EXCEPT ![r] = [@ EXCEPT !.pc = "loop", !.path = p]]
  /\ UNCHANGED requestVars

\* app.py:163-171
ReadChunkR(r) ==
  /\ reqs[r].pc = "loop"
  /\ reqs[r].idx < MaxChunks
  /\ \E chunk \in 0..CHUNK :
       LET me == [reqs[r] EXCEPT !.idx = @ + 1]
           w == reqs[r].written + chunk
       IN  IF chunk = 0 THEN StepAlone(r, me)
           ELSE IF over_limit(w)
           THEN IF files[me.path] # 0
                THEN StepUnlinking(r, [me EXCEPT !.written = w, !.pc = "except",
                                          !.caught = "HTTPException413"])
                ELSE StepAlone(r, [me EXCEPT !.written = w, !.pc = "except",
                                      !.caught = "FileNotFoundError"])
           ELSE \/ StepAlone(r, [me EXCEPT !.written = w,
                                           !.fileSize = @ + chunk])
                \/ StepAlone(r, [me EXCEPT !.written = w, !.pc = "except",
                                           !.caught = "OSError"])
  /\ UNCHANGED requestVars

\* app.py:163: the iterator raises
ReadErrorR(r) ==
  /\ reqs[r].pc = "loop"
  /\ \E e \in ReadFailures :
       StepAlone(r, [reqs[r] EXCEPT !.pc = "except", !.caught = e])
  /\ UNCHANGED requestVars

\* app.py:172-173
FinishR(r) ==
  /\ reqs[r].pc = "loop"
  /\ \/ StepAlone(r, [reqs[r] EXCEPT !.pc = "send"])
     \/ StepAlone(r, [reqs[r] EXCEPT !.pc = "except", !.caught = "OSError"])
  /\ UNCHANGED requestVars

\* app.py:174-177: abort(500), or FileNotFoundError out of os.unlink
ExceptR(r) ==
  /\ reqs[r].pc = "except"
  /\ IF files[reqs[r].path] # 0
     THEN StepUnlinking(r, [reqs[r] EXCEPT !.pc = "done", !.status = 500])
     ELSE StepAlone(r, [reqs[r] EXCEPT !.pc = "done", !.status = 500])
  /\ UNCHANGED requestVars

\* app.py:179-186: send_file opens whatever file is at tmp_path; with none
\* there it raises, and whether _cleanup still runs on the error response
\* depends on how the application propagates exceptions
SendFileR(r) ==
  /\ reqs[r].pc = "send"
  /\ IF files[reqs[r].path] # 0
     THEN StepAlone(r, [reqs[r] EXCEPT !.pc = "after_request", !.status = 200,
                           !.served = TRUE, !.servedOf = files[reqs[r].path]])
     ELSE \/ StepAlone(r, [reqs[r] EXCEPT !.pc = "after_request",
                              !.status = 500])
          \/ StepAlone(r, [reqs[r] EXCEPT !.pc = "done", !.status = 500])
  /\ UNCHANGED requestVars

\* app.py:180-183: os.unlink(tmp_path), its failure swallowed
CleanupR(r) ==
  /\ reqs[r].pc = "after_request"
  /\ LET next == [reqs[r] EXCEPT
                    !.pc = IF reqs[r].served THEN "respond" ELSE "done"]
     IN  IF files[reqs[r].path] # 0
         THEN StepUnlinking(r, next)
         ELSE StepAlone(r, next)
  /\ UNCHANGED requestVars

\* the server streams the response body to the client
DeliverR(r) ==
  /\ reqs[r].pc = "respond"
  /\ StepAlone(r, [reqs[r] EXCEPT !.pc = "done", !.delivered = TRUE])
  /\ UNCHANGED requestVars

TwoNext ==
  \E r \in Reqs :
    \/ AllocTmpR(r) \/ ReadChunkR(r) \/ ReadErrorR(r) \/ FinishR(r)
    \/ ExceptR(r) \/ SendFileR(r) \/ CleanupR(r) \/ DeliverR(r)

SpecTwo == TwoInit /\ [][TwoNext]_vars

\* C18: with requests interleaved in any way, none loses its temporary file
\* to a step of another, each serves its own file, and a request to which
\* nothing went wrong ends as it would alone, with its file delivered.
C18_Isolation ==
  \A r \in DOMAIN reqs :
    /\ ~reqs[r].lost
    /\ reqs[r].served => reqs[r].servedOf = r
    /\ (reqs[r].pc = "done" /\ reqs[r].caught = "none") =>
         (reqs[r].status = 200 /\ reqs[r].delivered)
====
